---- MODULE Spec2Model ----
(***************************************************************************)
(* Model of the user store of dotenv213/umm (internal/userstore):          *)
(* a database/sql handle over an SQLite file or in-memory database with    *)
(* one table `users`, and the six operations of the Store interface.       *)
(*                                                                         *)
(* Spec     : one caller issuing whole operations one after another.       *)
(* SpecConc : several callers sharing the handle, Create split at the      *)
(*            points where its transaction holds a pooled connection.      *)
(*                                                                         *)
(* Every caller of the repository (cmd/main.go, store_test.go) passes      *)
(* context.Background(), so the ctx argument never cancels and is not a    *)
(* variable of the model.                                                  *)
(***************************************************************************)
EXTENDS Integers, Sequences, FiniteSets, TLC

\* ---- bounds ----------------------------------------------------------
MaxCreates == 2          \* rows inserted in one run (caps sqlite_sequence)
MaxClock   == 2          \* distinct readings of CURRENT_TIMESTAMP
NumCallers == 2          \* goroutines sharing the handle in SpecConc

Usernames == {"", "alice"}
Emails    == {"", "alice@x.com"}
IdArgs    == 0 .. MaxCreates
Callers   == 1 .. NumCallers
ConnIds   == 1 .. NumCallers
DbIds     == 0 .. NumCallers

MemoryPath == ":memory:"
FilePath   == "users.db"

\* ---- errors -----------------------------------------------------------
\* An error is the sequence of the pieces of its message; nil is empty.
Nil              == << >>
ErrUserNotFound  == << "User not found" >>
ErrDuplicateUser == << "User already exists" >>
ErrDBClosed      == << "sql: database is closed" >>
UniqueFailed     == "UNIQUE constraint failed"
ErrNoRows        == << "sql: no rows in result set" >>

\* fmt.Errorf("<prefix> : %w", err)
Errorf(prefix, err) == << prefix >> \o err

\* strings.Contains(err.Error(), s)
Contains(err, s) == \E i \in 1 .. Len(err) : err[i] = s

\* ---- the User struct and the table -------------------------------------
\* Zero values of Go: ID 0, CreatedAt the zero time (0).
User(id, username, email, createdAt) ==
    [ID |-> id, Username |-> username, Email |-> email, CreatedAt |-> createdAt]

\* A database before migrate() has run on it.
PristineDb == [table |-> FALSE, rows |-> {}, seq |-> 0]

\* CREATE TABLE IF NOT EXISTS users (...)
migrate(d) == IF d.table THEN d ELSE [d EXCEPT !.table = TRUE]

MaxOf(S) == IF S = {} THEN 0 ELSE CHOOSE m \in S : \A x \in S : x <= m

\* Variant: INTEGER PRIMARY KEY without AUTOINCREMENT, the id is one more
\* than the largest rowid now in the table.
ExecInsert_ReuseRowid(d, username, email, now) ==
    IF ~d.table
    THEN [err |-> << "no such table", "users" >>, db |-> d, lastId |-> 0]
    ELSE IF \E r \in d.rows : r.Username = username
    THEN [err |-> << UniqueFailed, "users.username" >>, db |-> d, lastId |-> 0]
    ELSE IF \E r \in d.rows : r.Email = email
    THEN [err |-> << UniqueFailed, "users.email" >>, db |-> d, lastId |-> 0]
    ELSE LET id == MaxOf({r.ID : r \in d.rows}) + 1
         IN  [err |-> Nil,
              db |-> [d EXCEPT !.rows = @ \cup {User(id, username, email, now)},
                               !.seq = IF id > @ THEN id ELSE @],
              lastId |-> id]

\* INSERT INTO users (username, email) VALUES (?, ?)
\* id: AUTOINCREMENT, one more than the largest rowid ever used;
\* created_at: DEFAULT CURRENT_TIMESTAMP; username, email: UNIQUE.
ExecInsert(d, username, email, now) ==
    IF ~d.table
    THEN [err |-> << "no such table", "users" >>, db |-> d, lastId |-> 0]
    ELSE IF \E r \in d.rows : r.Username = username
    THEN [err |-> << UniqueFailed, "users.username" >>, db |-> d, lastId |-> 0]
    ELSE IF \E r \in d.rows : r.Email = email
    THEN [err |-> << UniqueFailed, "users.email" >>, db |-> d, lastId |-> 0]
    ELSE LET id == MaxOf({d.seq} \cup {r.ID : r \in d.rows}) + 1
         IN  [err |-> Nil,
              db |-> [d EXCEPT !.rows = @ \cup {User(id, username, email, now)},
                               !.seq = id],
              lastId |-> id]

\* Variant: the UNIQUE constraints are not checked on UPDATE.
ExecUpdate_NoUnique(d, username, email, id) ==
    IF ~d.table
    THEN [err |-> << "no such table", "users" >>, db |-> d, affected |-> 0]
    ELSE LET hit == {r \in d.rows : r.ID = id}
         IN  [err |-> Nil,
              db |-> [d EXCEPT !.rows = (d.rows \ hit) \cup
                        {[r EXCEPT !.Username = username, !.Email = email] : r \in hit}],
              affected |-> Cardinality(hit)]

\* UPDATE users SET username = ?, email = ? WHERE id = ?
ExecUpdate(d, username, email, id) ==
    IF ~d.table
    THEN [err |-> << "no such table", "users" >>, db |-> d, affected |-> 0]
    ELSE LET hit == {r \in d.rows : r.ID = id}
             rest == d.rows \ hit
         IN  IF hit = {}
             THEN [err |-> Nil, db |-> d, affected |-> 0]
             ELSE IF \E r \in rest : r.Username = username
             THEN [err |-> << UniqueFailed, "users.username" >>, db |-> d, affected |-> 0]
             ELSE IF \E r \in rest : r.Email = email
             THEN [err |-> << UniqueFailed, "users.email" >>, db |-> d, affected |-> 0]
             ELSE [err |-> Nil,
                   db |-> [d EXCEPT !.rows = rest \cup
                             {[r EXCEPT !.Username = username, !.Email = email] : r \in hit}],
                   affected |-> Cardinality(hit)]

\* Variant: DELETE FROM users, the WHERE clause lost.
ExecDelete_NoWhere(d, id) ==
    IF ~d.table
    THEN [err |-> << "no such table", "users" >>, db |-> d, affected |-> 0]
    ELSE [err |-> Nil, db |-> [d EXCEPT !.rows = {}],
          affected |-> Cardinality(d.rows)]

\* DELETE FROM users WHERE id = ?
ExecDelete(d, id) ==
    IF ~d.table
    THEN [err |-> << "no such table", "users" >>, db |-> d, affected |-> 0]
    ELSE LET hit == {r \in d.rows : r.ID = id}
         IN  [err |-> Nil, db |-> [d EXCEPT !.rows = @ \ hit],
              affected |-> Cardinality(hit)]

\* The rows of a set as a sequence in rowid order (a table scan).
RECURSIVE ScanRows(_)
ScanRows(S) ==
    IF S = {} THEN << >>
    ELSE LET r == CHOOSE x \in S : \A y \in S : x.ID <= y.ID
         IN  << r >> \o ScanRows(S \ {r})

\* SELECT id, username, email, created_at FROM users WHERE id = ?
QueryById(d, id) ==
    IF ~d.table
    THEN [err |-> << "no such table", "users" >>, rows |-> << >>]
    ELSE [err |-> Nil, rows |-> ScanRows({r \in d.rows : r.ID = id})]

\* Variant: the scan stops after the first row.
QueryAll_FirstRow(d) ==
    IF ~d.table
    THEN [err |-> << "no such table", "users" >>, rows |-> << >>]
    ELSE [err |-> Nil,
          rows |-> IF d.rows = {} THEN << >> ELSE << ScanRows(d.rows)[1] >>]

\* SELECT id, username, email, created_at FROM users
QueryAll(d) ==
    IF ~d.table
    THEN [err |-> << "no such table", "users" >>, rows |-> << >>]
    ELSE [err |-> Nil, rows |-> ScanRows(d.rows)]

\* ---- the methods of sqlStore, on one database ---------------------------
\* Each yields the error returned, the caller's User after the call, the
\* value returned (a sequence of User; a nil pointer or slice is empty) and
\* the database after the call.

\* Variant: the text looked for is not the text the engine reports.
CreateCall_OtherText(d, u, now) ==
    LET r == ExecInsert(d, u.Username, u.Email, now)
    IN  IF r.err # Nil
        THEN [err  |-> IF Contains(r.err, "constraint failed: UNIQUE")
                       THEN ErrDuplicateUser
                       ELSE Errorf("failed to insert user: ", r.err),
              user |-> u, got |-> << >>, db |-> d]
        ELSE [err  |-> Nil,
              user |-> [u EXCEPT !.ID = r.lastId],
              got  |-> << >>, db |-> r.db]

CreateCall(d, u, now) ==
    LET r == ExecInsert(d, u.Username, u.Email, now)
    IN  IF r.err # Nil
        THEN [err  |-> IF Contains(r.err, UniqueFailed)
                       THEN ErrDuplicateUser
                       ELSE Errorf("failed to insert user: ", r.err),
              user |-> u, got |-> << >>, db |-> d]          \* deferred tx.Rollback()
        ELSE [err  |-> Nil,
              user |-> [u EXCEPT !.ID = r.lastId],
              got  |-> << >>, db |-> r.db]                  \* tx.Commit()

\* Variant: sql.ErrNoRows is wrapped like any other error.
GetByIdCall_NoRowsWrapped(d, id) ==
    LET q == QueryById(d, id)
        scanErr == IF q.err # Nil THEN q.err
                   ELSE IF q.rows = << >> THEN ErrNoRows ELSE Nil
    IN  IF scanErr # Nil
        THEN [err |-> Errorf("Failed to get user: ", scanErr), got |-> << >>, db |-> d]
        ELSE [err |-> Nil, got |-> << q.rows[1] >>, db |-> d]

GetByIdCall(d, id) ==
    LET q == QueryById(d, id)
        scanErr == IF q.err # Nil THEN q.err
                   ELSE IF q.rows = << >> THEN ErrNoRows ELSE Nil
    IN  IF scanErr # Nil
        THEN [err |-> IF scanErr = ErrNoRows THEN ErrUserNotFound
                      ELSE Errorf("Failed to get user: ", scanErr),
              got |-> << >>, db |-> d]
        ELSE [err |-> Nil, got |-> << q.rows[1] >>, db |-> d]

ListAllCall(d) ==
    LET q == QueryAll(d)
    IN  IF q.err # Nil
        THEN [err |-> Errorf("failed to list users : ", q.err), got |-> << >>, db |-> d]
        ELSE [err |-> Nil, got |-> q.rows, db |-> d]

\* Variant: RowsAffected is not looked at.
UpdateCall_NoCount(d, u) ==
    LET r == ExecUpdate(d, u.Username, u.Email, u.ID)
    IN  IF r.err # Nil
        THEN [err |-> Errorf("failed to update user : ", r.err), got |-> << >>, db |-> d]
        ELSE [err |-> Nil, got |-> << >>, db |-> r.db]

UpdateCall(d, u) ==
    LET r == ExecUpdate(d, u.Username, u.Email, u.ID)
    IN  IF r.err # Nil
        THEN [err |-> Errorf("failed to update user : ", r.err), got |-> << >>, db |-> d]
        ELSE IF r.affected = 0
        THEN [err |-> ErrUserNotFound, got |-> << >>, db |-> r.db]
        ELSE [err |-> Nil, got |-> << >>, db |-> r.db]

DeleteCall(d, id) ==
    LET r == ExecDelete(d, id)
    IN  IF r.err # Nil
        THEN [err |-> Errorf("failed to delete user : ", r.err), got |-> << >>, db |-> d]
        ELSE IF r.affected = 0
        THEN [err |-> ErrUserNotFound, got |-> << >>, db |-> r.db]
        ELSE [err |-> Nil, got |-> << >>, db |-> r.db]

\* ---- state ---------------------------------------------------------------
VARIABLES
    dbPath,    \* the path NewDb was given
    closed,    \* sql.DB has been closed
    conns,     \* the handle's connection pool: per connection, its state and
               \* whether the PRAGMAs of NewDb were executed on it
    dbs,       \* contents of each database: 0 the file, k the private
               \* in-memory database of connection k
    clock,     \* the engine's CURRENT_TIMESTAMP
    res,       \* Spec: the last call, its arguments and what it returned
    created,   \* Spec: the ids successful Creates returned, in order
    orig,      \* Spec: per live id, the row as its Create made it
    written,   \* Spec: per live id, the username/email last written with success
    deleted,   \* Spec: the ids a Delete has removed
    pc,        \* SpecConc: where each caller is
    held,      \* SpecConc: the connection a caller's transaction holds
    req,       \* SpecConc: the User a caller's Create was given
    txdb,      \* SpecConc: the database as seen inside a caller's transaction
    out,       \* SpecConc: the call that returned last and its error
    issued     \* SpecConc: the ids successful Creates returned, in order

vars == << dbPath, closed, conns, dbs, clock, res, created, orig, written, deleted,
           pc, held, req, txdb, out, issued >>
seqVars  == << res, created, orig, written, deleted >>
concVars == << pc, held, req, txdb, out, issued >>

\* The database a connection talks to: every connection to a file shares
\* it, every connection to ":memory:" gets a database of its own.
DbIdx(k) == IF dbPath = MemoryPath THEN k ELSE 0

\* ---- the connection pool of database/sql ---------------------------------
IdleConns(cs) == {k \in ConnIds : cs[k].state = "idle"}

\* A free connection if there is one, else a newly opened one.
PickConn(cs) ==
    IF IdleConns(cs) # {}
    THEN CHOOSE k \in IdleConns(cs) : \A j \in IdleConns(cs) : k <= j
    ELSE CHOOSE k \in ConnIds : /\ cs[k].state = "none"
                                /\ \A j \in ConnIds : cs[j].state = "none" => k <= j

Checkout(cs, k) ==
    [cs EXCEPT ![k] = [state |-> "busy",
                       pragmas |-> IF @.state = "none" THEN FALSE ELSE @.pragmas]]

\* putConn: kept as a free connection unless two are idle already.
PutConn(cs, k) ==
    IF Cardinality(IdleConns(cs)) >= 2
    THEN [cs EXCEPT ![k] = [state |-> "none", pragmas |-> FALSE]]
    ELSE [cs EXCEPT ![k].state = "idle"]

\* Closing a connection to ":memory:" discards its database.
DropClosed(ds, cs) ==
    [i \in DbIds |-> IF i # 0 /\ dbPath = MemoryPath /\ cs[i].state = "none"
                     THEN PristineDb ELSE ds[i]]

\* ---- NewDb ---------------------------------------------------------------
\* sql.Open, the four PRAGMAs and migrate(), each on a connection taken from
\* and returned to the pool: all on connection 1.
NewDb(path) ==
    /\ dbPath = path
    /\ closed = FALSE
    /\ conns = [k \in ConnIds |-> IF k = 1 THEN [state |-> "idle", pragmas |-> TRUE]
                                  ELSE [state |-> "none", pragmas |-> FALSE]]
    /\ dbs = [i \in DbIds |-> IF i = (IF path = MemoryPath THEN 1 ELSE 0)
                              THEN migrate(PristineDb) ELSE PristineDb]

NoCall == [op |-> "NewDb", in |-> User(0, "", "", 0), id |-> 0,
           err |-> Nil, user |-> User(0, "", "", 0), got |-> << >>]

Init ==
    /\ \E path \in {MemoryPath, FilePath} : NewDb(path)
    /\ clock = 1
    /\ res = NoCall
    /\ created = << >>
    /\ orig = {}
    /\ written = {}
    /\ deleted = {}
    /\ pc = [c \in Callers |-> "idle"]
    /\ held = [c \in Callers |-> 0]
    /\ req = [c \in Callers |-> User(0, "", "", 0)]
    /\ txdb = [c \in Callers |-> PristineDb]
    /\ out = [op |-> "NewDb", err |-> Nil]
    /\ issued = << >>

\* Variant: a closed handle still hands out connections.
dbConnErr_Never == Nil

\* What taking a connection from the handle fails with: nothing while the
\* handle is open, "sql: database is closed" after db.Close().
dbConnErr == IF closed THEN ErrDBClosed ELSE Nil

\* ---- Spec: one caller, whole operations -----------------------------------
\* An operation on an open handle: take a connection, run the method on
\* that connection's database, give the connection back.
RunOn(call, k) ==
    /\ dbs' = DropClosed([dbs EXCEPT ![DbIdx(k)] = call.db],
                         PutConn(Checkout(conns, k), k))
    /\ conns' = PutConn(Checkout(conns, k), k)

Stored == dbs[DbIdx(1)].rows

Create(u) ==
    /\ IF dbConnErr # Nil
       THEN /\ res' = [op |-> "Create", in |-> u, id |-> 0, user |-> u, got |-> << >>,
                       err |-> Errorf("Failed to begin transctions : ", dbConnErr)]
            /\ UNCHANGED << conns, dbs, created, orig, written >>
       ELSE LET k == PickConn(conns)
                call == CreateCall(dbs[DbIdx(k)], u, clock)
            IN  /\ dbs[DbIdx(k)].seq < MaxCreates
                /\ RunOn(call, k)
                /\ res' = [op |-> "Create", in |-> u, id |-> 0, user |-> call.user,
                           got |-> << >>, err |-> call.err]
                /\ IF call.err = Nil
                   THEN /\ created' = Append(created, call.user.ID)
                        /\ orig' = orig \cup
                               {User(call.user.ID, u.Username, u.Email, clock)}
                        /\ written' = written \cup
                               {[ID |-> call.user.ID, Username |-> u.Username,
                                 Email |-> u.Email]}
                   ELSE UNCHANGED << created, orig, written >>
    /\ UNCHANGED << dbPath, closed, clock, deleted, concVars >>

GetById(id) ==
    /\ IF dbConnErr # Nil
       THEN /\ res' = [op |-> "GetById", in |-> NoCall.in, id |-> id, user |-> NoCall.in,
                       got |-> << >>, err |-> Errorf("Failed to get user: ", dbConnErr)]
            /\ UNCHANGED << conns, dbs >>
       ELSE LET k == PickConn(conns)
                call == GetByIdCall(dbs[DbIdx(k)], id)
            IN  /\ RunOn(call, k)
                /\ res' = [op |-> "GetById", in |-> NoCall.in, id |-> id,
                           user |-> NoCall.in, got |-> call.got, err |-> call.err]
    /\ UNCHANGED << dbPath, closed, clock, created, orig, written, deleted, concVars >>

ListAll ==
    /\ IF dbConnErr # Nil
       THEN /\ res' = [op |-> "ListAll", in |-> NoCall.in, id |-> 0, user |-> NoCall.in,
                       got |-> << >>, err |-> Errorf("failed to list users : ", dbConnErr)]
            /\ UNCHANGED << conns, dbs >>
       ELSE LET k == PickConn(conns)
                call == ListAllCall(dbs[DbIdx(k)])
            IN  /\ RunOn(call, k)
                /\ res' = [op |-> "ListAll", in |-> NoCall.in, id |-> 0,
                           user |-> NoCall.in, got |-> call.got, err |-> call.err]
    /\ UNCHANGED << dbPath, closed, clock, created, orig, written, deleted, concVars >>

Update(u) ==
    /\ IF dbConnErr # Nil
       THEN /\ res' = [op |-> "Update", in |-> u, id |-> u.ID, user |-> u, got |-> << >>,
                       err |-> Errorf("failed to update user : ", dbConnErr)]
            /\ UNCHANGED << conns, dbs, written >>
       ELSE LET k == PickConn(conns)
                call == UpdateCall(dbs[DbIdx(k)], u)
            IN  /\ RunOn(call, k)
                /\ res' = [op |-> "Update", in |-> u, id |-> u.ID, user |-> u,
                           got |-> << >>, err |-> call.err]
                /\ written' = IF call.err = Nil
                              THEN {w \in written : w.ID # u.ID} \cup
                                   {[ID |-> u.ID, Username |-> u.Username,
                                     Email |-> u.Email]}
                              ELSE written
    /\ UNCHANGED << dbPath, closed, clock, created, orig, deleted, concVars >>

Delete(id) ==
    /\ IF dbConnErr # Nil
       THEN /\ res' = [op |-> "Delete", in |-> NoCall.in, id |-> id, user |-> NoCall.in,
                       got |-> << >>, err |-> Errorf("failed to delete user : ", dbConnErr)]
            /\ UNCHANGED << conns, dbs, orig, written, deleted >>
       ELSE LET k == PickConn(conns)
                call == DeleteCall(dbs[DbIdx(k)], id)
            IN  /\ RunOn(call, k)
                /\ res' = [op |-> "Delete", in |-> NoCall.in, id |-> id,
                           user |-> NoCall.in, got |-> << >>, err |-> call.err]
                /\ IF call.err = Nil
                   THEN /\ deleted' = deleted \cup {id}
                        /\ orig' = {w \in orig : w.ID # id}
                        /\ written' = {w \in written : w.ID # id}
                   ELSE UNCHANGED << orig, written, deleted >>
    /\ UNCHANGED << dbPath, closed, clock, created, concVars >>

\* db.Close(): no new operation starts, every free connection is closed.
Close ==
    /\ closed' = TRUE
    /\ conns' = [k \in ConnIds |->
                   IF conns[k].state = "idle"
                   THEN [state |-> "none", pragmas |-> FALSE] ELSE conns[k]]
    /\ dbs' = DropClosed(dbs, conns')
    /\ res' = [op |-> "Close", in |-> NoCall.in, id |-> 0, user |-> NoCall.in,
               got |-> << >>, err |-> Nil]
    /\ UNCHANGED << dbPath, clock, created, orig, written, deleted, concVars >>

\* Time passes between calls.
Tick ==
    /\ clock < MaxClock
    /\ clock' = clock + 1
    /\ UNCHANGED << dbPath, closed, conns, dbs, seqVars, concVars >>

\* What callers pass: a client-built User has no CreatedAt, and no ID
\* before Create.
CreateInputs == {User(0, un, em, 0) : un \in Usernames, em \in Emails}
UpdateInputs == {User(id, un, em, 0) : id \in IdArgs, un \in Usernames, em \in Emails}

Next ==
    \/ \E u \in CreateInputs : Create(u)
    \/ \E id \in IdArgs : GetById(id)
    \/ ListAll
    \/ \E u \in UpdateInputs : Update(u)
    \/ \E id \in IdArgs : Delete(id)
    \/ Close
    \/ Tick

Spec == Init /\ [][Next]_vars

\* ---- SpecConc: several callers on one handle --------------------------------
\* A caller's call takes a connection from the pool for as long as it runs:
\* Create from BeginTx to Commit or Rollback, the others for one statement.
\* A second caller arriving meanwhile finds no free connection and the pool
\* opens a new one, on which NewDb's PRAGMAs and migrate() never ran.

\* The engine admits one write transaction on a database at a time; the
\* others wait (busy timeout).
WriteLocked(i) ==
    \E c \in Callers : pc[c] = "inserted" /\ DbIdx(held[c]) = i

\* tx, err := s.db.BeginTx(ctx, nil)
BeginCreate(c, u) ==
    /\ pc[c] = "idle" /\ dbConnErr = Nil
    /\ LET k == PickConn(conns)
       IN  /\ conns' = Checkout(conns, k)
           /\ held' = [held EXCEPT ![c] = k]
    /\ req' = [req EXCEPT ![c] = u]
    /\ pc' = [pc EXCEPT ![c] = "tx"]
    /\ UNCHANGED << dbPath, closed, dbs, clock, txdb, out, issued, seqVars >>

\* tx.ExecContext(INSERT ...), LastInsertId, user.ID = id; on an error the
\* deferred Rollback and the return.
InsertCreate(c) ==
    /\ pc[c] = "tx"
    /\ LET k == held[c]
           d == dbs[DbIdx(k)]
           call == CreateCall(d, req[c], clock)
       IN  /\ ~WriteLocked(DbIdx(k))
           /\ d.seq < MaxCreates
           /\ IF call.err # Nil
              THEN /\ conns' = PutConn(conns, k)
                   /\ dbs' = DropClosed(dbs, conns')
                   /\ out' = [op |-> "Create", err |-> call.err]
                   /\ pc' = [pc EXCEPT ![c] = "idle"]
                   /\ held' = [held EXCEPT ![c] = 0]
                   /\ req' = [req EXCEPT ![c] = NoCall.in]
                   /\ UNCHANGED << txdb >>
              ELSE /\ txdb' = [txdb EXCEPT ![c] = call.db]
                   /\ req' = [req EXCEPT ![c] = call.user]
                   /\ pc' = [pc EXCEPT ![c] = "inserted"]
                   /\ UNCHANGED << conns, dbs, out, held >>
    /\ UNCHANGED << dbPath, closed, clock, issued, seqVars >>

\* tx.Commit()
CommitCreate(c) ==
    /\ pc[c] = "inserted"
    /\ LET k == held[c]
       IN  /\ conns' = PutConn(conns, k)
           /\ dbs' = DropClosed([dbs EXCEPT ![DbIdx(k)] = txdb[c]], conns')
    /\ out' = [op |-> "Create", err |-> Nil]
    /\ issued' = Append(issued, req[c].ID)
    /\ pc' = [pc EXCEPT ![c] = "idle"]
    /\ held' = [held EXCEPT ![c] = 0]
    /\ req' = [req EXCEPT ![c] = NoCall.in]
    /\ txdb' = [txdb EXCEPT ![c] = PristineDb]
    /\ UNCHANGED << dbPath, closed, clock, seqVars >>

\* GetById, ListAll, Update, Delete: one statement on one connection.
OneStatement(c, op, call, k, writes) ==
    /\ pc[c] = "idle" /\ dbConnErr = Nil
    /\ writes => ~WriteLocked(DbIdx(k))
    /\ conns' = PutConn(Checkout(conns, k), k)
    /\ dbs' = DropClosed([dbs EXCEPT ![DbIdx(k)] = call.db], conns')
    /\ out' = [op |-> op, err |-> call.err]
    /\ UNCHANGED << dbPath, closed, clock, pc, held, req, txdb, issued, seqVars >>

ConcGetById(c, id) ==
    LET k == PickConn(conns)
    IN  OneStatement(c, "GetById", GetByIdCall(dbs[DbIdx(k)], id), k, FALSE)

ConcListAll(c) ==
    LET k == PickConn(conns)
    IN  OneStatement(c, "ListAll", ListAllCall(dbs[DbIdx(k)]), k, FALSE)

ConcUpdate(c, u) ==
    LET k == PickConn(conns)
    IN  OneStatement(c, "Update", UpdateCall(dbs[DbIdx(k)], u), k, TRUE)

ConcDelete(c, id) ==
    LET k == PickConn(conns)
    IN  OneStatement(c, "Delete", DeleteCall(dbs[DbIdx(k)], id), k, TRUE)

NextConc ==
    \/ \E c \in Callers, u \in CreateInputs : BeginCreate(c, u)
    \/ \E c \in Callers : InsertCreate(c)
    \/ \E c \in Callers : CommitCreate(c)
    \/ \E c \in Callers, id \in IdArgs : ConcGetById(c, id)
    \/ \E c \in Callers : ConcListAll(c)
    \/ \E c \in Callers, u \in UpdateInputs : ConcUpdate(c, u)
    \/ \E c \in Callers, id \in IdArgs : ConcDelete(c, id)

SpecConc == Init /\ [][NextConc]_vars

\* ---- what the history says the table holds --------------------------------
LiveIds == {o.ID : o \in orig}

\* The record of a live id: the id and created_at of its creation, the
\* username and email of the last successful Create or Update.
Ledger == {User(w.ID, w.Username, w.Email, (CHOOSE o \in orig : o.ID = w.ID).CreatedAt) :
             w \in {x \in written : x.ID \in LiveIds}}

\* u's username or email is held by a stored user.
Collides(u, rows) == \E r \in rows : r.Username = u.Username \/ r.Email = u.Email

\* u names a stored row and carries the username or email of another one.
UpdateCollides(u, rows) ==
    /\ \E r \in rows : r.ID = u.ID
    /\ \E o \in rows : o.ID # u.ID /\ (o.Username = u.Username \/ o.Email = u.Email)

IsGeneric(err) == err # Nil /\ err # ErrUserNotFound /\ err # ErrDuplicateUser

\* The step is the call Create(u), Update(u), GetById(id), Delete(id): res'
\* names the call and its argument.
CreateOf(u)  == res'.op = "Create"  /\ res'.in = u  /\ Create(u)
UpdateOf(u)  == res'.op = "Update"  /\ res'.in = u  /\ Update(u)
GetByIdOf(id) == res'.op = "GetById" /\ res'.id = id /\ GetById(id)
DeleteOf(id) == res'.op = "Delete"  /\ res'.id = id /\ Delete(id)
ListAllStep  == res'.op = "ListAll" /\ ListAll

\* ---- C1 ---------------------------------------------------------------------
C1_Unique ==
    \A i \in DbIds : \A r, o \in dbs[i].rows :
        r # o => r.Username # o.Username /\ r.Email # o.Email

C1_UpdateRefused ==
    \A u \in UpdateInputs :
        (~closed /\ UpdateCollides(u, Stored) /\ UpdateOf(u))
            => IsGeneric(res'.err) /\ dbs' = dbs

\* C1: in every reachable state no two stored users share a username and no
\* two share an email; an Update that would give a row the username or email
\* of another stored row fails with a generic error (neither nil nor
\* ErrUserNotFound) and changes no row.
C1_Theorem == []C1_Unique /\ [][C1_UpdateRefused]_vars

C1_Witness ==
    /\ ~closed /\ res.op = "Update" /\ Contains(res.err, UniqueFailed)
    /\ Cardinality(Stored) = 2
    /\ \E r \in Stored : r.ID = res.user.ID

\* ---- C2 ---------------------------------------------------------------------
C2_CreateStep ==
    \A u \in CreateInputs :
        (~closed /\ ~Collides(u, Stored) /\ CreateOf(u))
            => /\ res'.err = Nil
               /\ res'.user.ID > 0
               /\ \A i \in 1 .. Len(created) : created[i] < res'.user.ID
               /\ res'.user.ID \notin deleted
               /\ \A r \in Stored : r.ID # res'.user.ID

\* C2: a Create that collides with no stored user succeeds and returns an id
\* that is strictly positive, larger than every id returned before, and not
\* the id of any record deleted earlier.
C2_Theorem == [][C2_CreateStep]_vars

C2_Witness ==
    /\ res.op = "Create" /\ res.err = Nil
    /\ (res.user.ID - 1) \in deleted
    /\ \A r \in Stored : r.ID >= res.user.ID

\* ---- C3 ---------------------------------------------------------------------
C3_CreateStep ==
    \A u \in CreateInputs :
        (~closed /\ Collides(u, Stored) /\ CreateOf(u))
            => /\ res'.err = ErrDuplicateUser
               /\ dbs' = dbs
               /\ res'.user = u

\* C3: a Create whose username or whose email equals that of a stored user
\* fails with ErrDuplicateUser and leaves the database and the caller's
\* record as they were.
C3_Theorem == [][C3_CreateStep]_vars

C3_Witness ==
    /\ res.op = "Create" /\ res.err = ErrDuplicateUser
    /\ \E r \in Stored : r.Email = res.user.Email /\ r.Username # res.user.Username
    /\ ~ \E r \in Stored : r.Username = res.user.Username

\* ---- C4 ---------------------------------------------------------------------
C4_AsCreated ==
    \A id \in IdArgs :
        (~closed /\ GetByIdOf(id))
            => IF id \in LiveIds
               THEN res'.err = Nil /\ res'.got = << CHOOSE o \in orig : o.ID = id >>
               ELSE res'.err = ErrUserNotFound /\ res'.got = << >>

\* C4 as stated: GetById on a live id returns the record as it was created.
C4_Original == [][C4_AsCreated]_vars

C4_AsStored ==
    \A id \in IdArgs :
        (~closed /\ GetByIdOf(id))
            => IF id \in LiveIds
               THEN res'.err = Nil /\ res'.got = << CHOOSE x \in Ledger : x.ID = id >>
               ELSE res'.err = ErrUserNotFound /\ res'.got = << >>

\* C4 amended: GetById on a live id returns the id and created_at of its
\* creation and the username and email last written by a successful Create
\* or Update; on any other id it returns ErrUserNotFound.
C4_Theorem == [][C4_AsStored]_vars

C4_Witness ==
    /\ res.op = "GetById" /\ res.err = Nil
    /\ res.got[1] \notin orig
    /\ res.got[1].ID \in LiveIds
    /\ deleted # {}

\* ---- C5 ---------------------------------------------------------------------
Overwritten(rows, u) ==
    {IF r.ID = u.ID THEN [r EXCEPT !.Username = u.Username, !.Email = u.Email] ELSE r :
        r \in rows}

C5_Always ==
    \A u \in UpdateInputs :
        (~closed /\ UpdateOf(u))
            => IF u.ID \in LiveIds
               THEN res'.err = Nil /\ Stored' = Overwritten(Stored, u)
               ELSE res'.err = ErrUserNotFound /\ dbs' = dbs

\* C5 as stated: every Update on a live id succeeds.
C5_Original == [][C5_Always]_vars

C5_UnlessTaken ==
    \A u \in UpdateInputs :
        (~closed /\ UpdateOf(u))
            => IF u.ID \notin LiveIds
               THEN res'.err = ErrUserNotFound /\ dbs' = dbs
               ELSE IF UpdateCollides(u, Stored)
               THEN IsGeneric(res'.err) /\ dbs' = dbs
               ELSE res'.err = Nil /\ Stored' = Overwritten(Stored, u)

\* C5 amended: Update on a live id with a username and email no other stored
\* user holds succeeds and overwrites that row's username and email only;
\* with a username or email another stored user holds it fails with a generic
\* error and changes nothing; on an id with no live record it returns
\* ErrUserNotFound and changes nothing.
C5_Theorem == [][C5_UnlessTaken]_vars

C5_Witness ==
    /\ res.op = "Update" /\ res.err = Nil
    /\ Cardinality(Stored) = 2
    /\ \E r \in Stored : /\ r.ID = res.user.ID /\ r.Username = res.user.Username
                         /\ r.CreatedAt # 0 /\ r \notin orig

\* ---- C6 ---------------------------------------------------------------------
C6_DeleteStep ==
    \A id \in IdArgs :
        (~closed /\ DeleteOf(id))
            => IF id \in LiveIds
               THEN res'.err = Nil /\ Stored' = {r \in Stored : r.ID # id}
               ELSE res'.err = ErrUserNotFound /\ dbs' = dbs

C6_GoneForGood ==
    \A id \in IdArgs :
        (~closed /\ id \in deleted /\ GetByIdOf(id))
            => res'.err = ErrUserNotFound /\ res'.got = << >>

\* C6: Delete on a live id succeeds and removes that row only, Delete on any
\* other id returns ErrUserNotFound and changes nothing, and every GetById on
\* a deleted id returns ErrUserNotFound.
C6_Theorem == [][C6_DeleteStep /\ C6_GoneForGood]_vars

C6_Witness ==
    /\ res.op = "GetById" /\ res.id \in deleted /\ res.err = ErrUserNotFound
    /\ Stored # {}
    /\ Len(created) = MaxCreates

\* ---- C7 ---------------------------------------------------------------------
StoreOp ==
    \/ \E u \in CreateInputs : CreateOf(u)
    \/ \E id \in IdArgs : GetByIdOf(id)
    \/ ListAllStep
    \/ \E u \in UpdateInputs : UpdateOf(u)
    \/ \E id \in IdArgs : DeleteOf(id)

C7_ClosedStep ==
    (closed /\ StoreOp)
        => /\ res'.err # Nil
           /\ res'.got = << >>
           /\ res'.user = res'.in
           /\ dbs' = dbs

\* C7: once the store is closed every Create, GetById, ListAll, Update and
\* Delete returns a non-nil error, returns no record and changes no record.
C7_Theorem == [][C7_ClosedStep]_vars

C7_Witness ==
    /\ closed /\ res.op = "Delete" /\ res.err # Nil
    /\ \E r \in dbs[0].rows : r.ID = res.id

\* ---- C8 ---------------------------------------------------------------------
\* C8: after a successful Create the caller's record carries the id and the
\* non-zero created_at of the row just inserted.
C8_Claim ==
    (res.op = "Create" /\ res.err = Nil)
        => \E r \in Stored : /\ r.ID = res.user.ID
                             /\ r.CreatedAt = res.user.CreatedAt
                             /\ res.user.CreatedAt # 0

\* ---- C9 ---------------------------------------------------------------------
Elems(q) == {q[i] : i \in 1 .. Len(q)}

C9_ListStep ==
    (~closed /\ ListAllStep)
        => /\ res'.err = Nil
           /\ Elems(res'.got) = Ledger
           /\ Len(res'.got) = Cardinality(LiveIds)
           /\ Len(res'.got) = Len(created) - Cardinality(deleted)

\* C9: ListAll on an open store returns without error exactly the live
\* records, each once: as many as Creates have succeeded less those deleted.
C9_Theorem == [][C9_ListStep]_vars

C9_Witness ==
    /\ res.op = "ListAll" /\ res.err = Nil
    /\ Len(res.got) = 2
    /\ Len(created) = 2

\* ---- C10 --------------------------------------------------------------------
\* Every connection a caller's operation runs on had NewDb's PRAGMAs applied.
C10_Configured ==
    \A k \in ConnIds : conns[k].state # "none" => conns[k].pragmas

\* Every connection a caller's operation runs on talks to the database
\* NewDb initialised, where the table exists.
C10_SameTable ==
    \A k \in ConnIds : conns[k].state # "none"
        => DbIdx(k) = DbIdx(1) /\ dbs[DbIdx(k)].table

\* No call fails for want of the table.
C10_NoMissingTable == ~Contains(out.err, "no such table")

\* Successful Creates got different ids.
C10_DistinctIds ==
    \A i, j \in 1 .. Len(issued) : i # j => issued[i] # issued[j]

\* C10: with several callers on one handle, every operation runs on a
\* connection with the open-time configuration, against the one initialised
\* table, and successful Creates get distinct ids.
C10_Claim ==
    C10_Configured /\ C10_SameTable /\ C10_NoMissingTable /\ C10_DistinctIds /\ C1_Unique

\* ---- C11 --------------------------------------------------------------------
\* C11: every stored user has a non-empty username and a non-empty email.
C11_Claim ==
    \A i \in DbIds : \A r \in dbs[i].rows : r.Username # "" /\ r.Email # ""

====
